---- MODULE Spec2Model ----
(***************************************************************************)
(* Model of elk_python/elasticsearch_demo.py: the synthetic activity       *)
(* record generator (generate_sample_data), the index provisioning         *)
(* (create_index_if_not_exists), the bulk loader (insert_data) and the     *)
(* orchestrating run (main).                                               *)
(*                                                                         *)
(* Units.  Time is counted in whole minutes (every offset the generator    *)
(* adds is a whole number of minutes, so the sub-minute part of the clock  *)
(* is carried unchanged and is left out).  response_time is counted in     *)
(* hundredths (round(x, 2)).  Coordinates are counted in 1e-4 degrees.     *)
(***************************************************************************)
EXTENDS Integers, Sequences, FiniteSets, TLC

VARIABLES
    \* ---- generator -------------------------------------------------------
    clock,        \* wall clock read by datetime.now(), in minutes
    seed,         \* the seed the caller gives the random source
    rng,          \* state of the module-level random source
    num_records,  \* the argument the generator is called with
    calls,        \* the generator calls made so far, with what each returned
    \* ---- store (the remote cluster) ---------------------------------------
    indices,      \* the indices the store holds, each a name with its body
    docs,         \* the documents the store holds in the index of the run
    \* ---- create_index_if_not_exists ---------------------------------------
    ensure_calls, \* the calls made so far, with what each returned
    \* ---- insert_data ------------------------------------------------------
    data,         \* the batch handed to insert_data
    insert_out,   \* what the insert_data call did
    \* ---- main -------------------------------------------------------------
    pc,           \* position of main
    console,      \* the lines printed so far
    remote_log    \* the remote operations issued so far

vars == <<clock, seed, rng, num_records, calls, indices, docs, ensure_calls,
          data, insert_out, pc, console, remote_log>>

----------------------------------------------------------------------------
(* Bounds of the model *)

\* the random source has RngModulus states; every one of them is a seed
RngModulus == 4096
\* largest count the generator is called with
MaxCount == 2
\* the wall clock at the start, in minutes
ClockStart == 20000
\* how many minutes the wall clock may advance
MaxTicks == 1
\* how many times create_index_if_not_exists is called
MaxEnsureCalls == 3
\* longest batch handed to insert_data
MaxBatch == 3
\* largest seed of the random source in a run of main
MaxMainSeed == 1

----------------------------------------------------------------------------
(* Program constants *)

WINDOW_DAYS == 7
SESSION_MIN == 60
SESSION_MAX == 3600
RESPONSE_MIN == 10
RESPONSE_MAX == 500

MinutesPerDay == 24 * 60

users ==
    << [id |-> "U001", name |-> "John Doe",       dept |-> "engineering"],
       [id |-> "U002", name |-> "Jane Smith",     dept |-> "marketing"],
       [id |-> "U003", name |-> "Bob Johnson",    dept |-> "sales"],
       [id |-> "U004", name |-> "Alice Brown",    dept |-> "engineering"],
       [id |-> "U005", name |-> "Charlie Wilson", dept |-> "hr"] >>

actions ==
    << "login", "logout", "file_upload", "file_download", "api_call",
       "database_query" >>

statuses == << "success", "failed", "timeout" >>

locations ==
    << [lat |-> 407128, lon |-> -740060],
       [lat |-> 377749, lon |-> -1224194],
       [lat |-> 515074, lon |-> -1278],
       [lat |-> 356762, lon |-> 1396503],
       [lat |-> 190760, lon |-> 728777] >>

USER_AGENT == "Mozilla/5.0 (Windows NT 10.0; Win64; x64) AppleWebKit/537.36"

Range(s) == { s[k] : k \in DOMAIN s }

----------------------------------------------------------------------------
(* The random source: a seeded pseudo-random generator (an additive      *)
(* congruential sequence over RngModulus states).  A draw reads the        *)
(* current state and advances it.                                          *)

\* the state k draws after state r
RngAt(r, k) == (r + k * 2531) % RngModulus

NextRng(r) == RngAt(r, 1)

\* random.randrange(n): scaled from the state r
RandBelow(r, n) == (r * n) \div RngModulus

\* random.randint(a, b), both ends included
RandInt(r, a, b) == a + RandBelow(r, b - a + 1)

\* random.choice(seq)
Choice(r, seq) == seq[1 + RandBelow(r, Len(seq))]

\* round(random.uniform(0.1, 5.0), 2), in hundredths
UniformRounded(r, lo, hi) == lo + ((2 * (hi - lo) * r + RngModulus) \div (2 * RngModulus))

----------------------------------------------------------------------------
(* datetime -> str and back.  The sortable string form is modelled by its  *)
(* date, hour and minute parts.                                            *)

IsoFormat(t) ==
    [date |-> t \div MinutesPerDay,
     hour |-> (t % MinutesPerDay) \div 60,
     minute |-> t % 60]

ParseIso(s) == s.date * MinutesPerDay + s.hour * 60 + s.minute

----------------------------------------------------------------------------
(* generate_sample_data *)

\* the number of draws one iteration of the loop makes
DrawsPerRecord == 11

BaseTime(now) == now - WINDOW_DAYS * MinutesPerDay

TimeOffset(r) ==
    RandInt(RngAt(r, 2), 0, 7) * MinutesPerDay
    + RandInt(RngAt(r, 3), 0, 23) * 60
    + RandInt(RngAt(r, 4), 0, 59)

\* variant: the department is drawn again from the population instead of
\* being read from the chosen user
DepartmentRedrawn(user, r) == Choice(RngAt(r, 5), users).dept

Department(user, r) == user.dept

\* variant: the lower end of the range is left at 0
SessionDurationFromZero(r) == RandInt(r, 0, SESSION_MAX)

SessionDuration(r) == RandInt(r, SESSION_MIN, SESSION_MAX)

IpAddress(r) == << 192, 168, RandInt(r, 1, 255), RandInt(NextRng(r), 1, 255) >>

\* one iteration of the loop, started with the random source in state r
GenerateRecord(base_time, r) ==
    LET user     == Choice(r, users)
        location == Choice(RngAt(r, 1), locations)
    IN  [timestamp        |-> IsoFormat(base_time + TimeOffset(r)),
         user_id          |-> user.id,
         user_name        |-> user.name,
         action           |-> Choice(RngAt(r, 5), actions),
         department       |-> Department(user, r),
         status           |-> Choice(RngAt(r, 6), statuses),
         response_time    |-> UniformRounded(RngAt(r, 7), RESPONSE_MIN, RESPONSE_MAX),
         ip_address       |-> IpAddress(RngAt(r, 8)),
         user_agent       |-> USER_AGENT,
         location         |-> location,
         session_duration |-> SessionDuration(RngAt(r, 10))]

\* variant: the loop body runs once before the count is tested
SampleLoopAtLeastOnce(n, base_time, r) ==
    LET m == IF n > 1 THEN n ELSE 1
    IN  [sample_data |->
            [k \in 1 .. m |-> GenerateRecord(base_time, RngAt(r, (k - 1) * DrawsPerRecord))],
         rng |-> RngAt(r, m * DrawsPerRecord)]

\* for i in range(n): iteration i starts with the random source
\* i * DrawsPerRecord draws after r and appends one record; range(n) is
\* empty when n <= 0
SampleLoop(n, base_time, r) ==
    [sample_data |->
        [k \in 1 .. n |-> GenerateRecord(base_time, RngAt(r, (k - 1) * DrawsPerRecord))],
     rng |-> IF n > 0 THEN RngAt(r, n * DrawsPerRecord) ELSE r]

\* variant: the call seeds the random source from the clock it reads
GenerateSampleDataClockSeeded(n, now, r) ==
    [result |-> [k \in 1 .. n |->
                    GenerateRecord(now - WINDOW_DAYS * MinutesPerDay,
                                   RngAt(now % RngModulus, (k - 1) * DrawsPerRecord))],
     raised |-> "none",
     rng    |-> IF n > 0 THEN RngAt(now % RngModulus, n * DrawsPerRecord) ELSE r]

\* the call: what it returns, what it raises, and the random source after it
GenerateSampleData(n, now, r) ==
    LET loop == SampleLoop(n, BaseTime(now), r)
    IN  [result |-> loop.sample_data,
         raised |-> "none",
         rng    |-> loop.rng]

----------------------------------------------------------------------------
(* The store: what the remote cluster does with the requests it receives.  *)

INDEX_NAME == "user_activity_logs"

\* the body create_index_if_not_exists creates the index with (user_name
\* is a text field with a keyword sub-field)
mapping ==
    [mappings |->
        [timestamp        |-> "date",
         user_id          |-> "keyword",
         user_name        |-> "text+keyword",
         action           |-> "keyword",
         department       |-> "keyword",
         status           |-> "keyword",
         response_time    |-> "float",
         ip_address       |-> "ip",
         user_agent       |-> "text",
         location         |-> "geo_point",
         session_duration |-> "integer"],
     settings |-> [number_of_shards |-> 1, number_of_replicas |-> 1]]

\* es.indices.exists(index=name)
IndexExists(idx, name) == \E e \in idx : e.name = name

\* es.indices.create(index=name, body=body): the store refuses a second
\* index of the same name
IndexCreate(idx, name, body) ==
    IF IndexExists(idx, name)
    THEN [indices |-> idx, raised |-> "RequestError"]
    ELSE [indices |-> idx \cup {[name |-> name, body |-> body]},
          raised  |-> "none"]

\* whether the store indexes a document under the field types of the
\* mapping: a date, an IPv4 address, a geographic point
ValidDate(t) == t.hour \in 0 .. 23 /\ t.minute \in 0 .. 59
ValidIp(a) == Len(a) = 4 /\ \A k \in 1 .. 4 : a[k] \in 0 .. 255
ValidGeoPoint(p) ==
    /\ p.lat >= -900000 /\ p.lat <= 900000
    /\ p.lon >= -1800000 /\ p.lon <= 1800000

StoreAccepts(doc) ==
    /\ ValidDate(doc.timestamp)
    /\ ValidIp(doc.ip_address)
    /\ ValidGeoPoint(doc.location)

\* the documents of s the store indexes (keep) or rejects (~keep), in order
SelectDocs(s, keep) == SelectSeq(s, LAMBDA d : StoreAccepts(d) = keep)

\* a line of the console: the fixed text and the number formatted into it
Line(text, n) == [text |-> text, n |-> n]

\* a remote operation, who issued it, and whether the store was reached
Remote(op, by, reached) == [op |-> op, by |-> by, failed |-> ~reached]

----------------------------------------------------------------------------
(* create_index_if_not_exists.  reach1 and reach2 say whether the store is *)
(* reached by the exists request and by the create request.                *)

\* variant: the early return is never taken
SkipCreationNever(idx, name) == FALSE

\* the guard of the early return: if es.indices.exists(index=index_name)
SkipCreation(idx, name) == IndexExists(idx, name)

CreateIndexIfNotExists(idx, name, reach1, reach2) ==
    IF ~reach1
    THEN [ret |-> FALSE, raised |-> "ConnectionError", indices |-> idx,
          printed |-> << >>,
          remote |-> << Remote("exists", "create_index_if_not_exists", FALSE) >>]
    ELSE IF SkipCreation(idx, name)
    THEN [ret |-> FALSE, raised |-> "none", indices |-> idx,
          printed |-> << Line("Index already exists, skipping creation", 0) >>,
          remote |-> << Remote("exists", "create_index_if_not_exists", TRUE) >>]
    ELSE IF ~reach2
    THEN [ret |-> FALSE, raised |-> "ConnectionError", indices |-> idx,
          printed |-> << >>,
          remote |-> << Remote("exists", "create_index_if_not_exists", TRUE),
                        Remote("create", "create_index_if_not_exists", FALSE) >>]
    ELSE LET made == IndexCreate(idx, name, mapping)
         IN  [ret |-> (made.raised = "none"), raised |-> made.raised,
              indices |-> made.indices,
              printed |-> IF made.raised = "none"
                          THEN << Line("Index created successfully", 0) >>
                          ELSE << >>,
              remote |-> << Remote("exists", "create_index_if_not_exists", TRUE),
                            Remote("create", "create_index_if_not_exists", TRUE) >>]

----------------------------------------------------------------------------
(* insert_data.  reached says whether the bulk request reaches the store.  *)

\* the loop that wraps every document in a bulk action
PrepareActions(name, batch) ==
    [k \in DOMAIN batch |-> [index |-> name, source |-> batch[k]]]

Sources(acts) == [k \in DOMAIN acts |-> acts[k].source]

\* elasticsearch.helpers.bulk(es, actions), called with its defaults: the
\* batch is sent as one request (it is shorter than the chunk size), the
\* store indexes each document on its own, and with raise_on_error left at
\* its default the helper raises BulkIndexError when the store rejected any
\* document, after the request; it returns (success, errors) only when
\* there were no errors
Bulk(acts, reached) ==
    LET ok  == SelectDocs(Sources(acts), TRUE)
        bad == SelectDocs(Sources(acts), FALSE)
    IN  IF ~reached
        THEN [raised |-> "ConnectionError", message |-> Line("ConnectionError", 0),
              success |-> 0, failed |-> << >>, stored |-> << >>]
        ELSE IF bad # << >>
        THEN [raised |-> "BulkIndexError",
              message |-> Line("document(s) failed to index", Len(bad)),
              success |-> 0, failed |-> << >>, stored |-> ok]
        ELSE [raised |-> "none", message |-> Line("", 0),
              success |-> Len(ok), failed |-> << >>, stored |-> ok]

\* what the try block prints when bulk returns
ReportCounts(success, failed) ==
    << Line("Successfully inserted documents", success) >>
    \o (IF failed # << >>
        THEN << Line("Failed to insert documents", Len(failed)) >>
        ELSE << >>)

\* what the except block prints
ReportError(message) ==
    << Line("Error during bulk insert: " \o message.text, message.n) >>

InsertData(name, batch, reached) ==
    LET b == Bulk(PrepareActions(name, batch), reached)
    IN  [called   |-> TRUE,
         reached  |-> reached,
         returned |-> "None",
         raised   |-> "none",
         printed  |-> IF b.raised = "none"
                      THEN ReportCounts(b.success, b.failed)
                      ELSE ReportError(b.message),
         stored   |-> b.stored,
         remote   |-> << Remote("bulk", "insert_data", reached) >>]

\* what the caller of insert_data has in hand when the call is over
CallerOutcome(o) == [returned |-> o.returned, raised |-> o.raised]

NotCalled ==
    [called |-> FALSE, reached |-> FALSE, returned |-> "None", raised |-> "none",
     printed |-> << >>, stored |-> << >>, remote |-> << >>]

----------------------------------------------------------------------------
(* main and the functions it calls.  fail names the remote request of the  *)
(* step that does not reach the store, 0 when all of them do.              *)

NUM_RECORDS == 150

\* the requests 1 .. k of one function, issued until one fails
Requests(op, by, k, fail) ==
    [j \in 1 .. (IF fail = 0 THEN k ELSE fail) |-> Remote(op, by, j # fail)]

\* connect_to_elasticsearch: es.ping() answers False when the store is not
\* reached and the function raises; es.info() raises by itself
ConnectToElasticsearch(fail) ==
    [raised  |-> IF fail = 0 THEN "none" ELSE "ConnectionError",
     printed |-> IF fail = 0
                 THEN << Line("Connected to Elasticsearch successfully!", 0),
                         Line("Cluster info", 0) >>
                 ELSE IF fail = 2
                 THEN << Line("Connected to Elasticsearch successfully!", 0) >>
                 ELSE << >>,
     remote  |-> IF fail = 1
                 THEN << Remote("ping", "connect_to_elasticsearch", FALSE) >>
                 ELSE << Remote("ping", "connect_to_elasticsearch", TRUE),
                         Remote("info", "connect_to_elasticsearch", fail # 2) >>]

\* es.indices.refresh(index=INDEX_NAME), in main
Refresh(reached) ==
    [raised  |-> IF reached THEN "none" ELSE "ConnectionError",
     printed |-> << >>,
     remote  |-> << Remote("refresh", "main", reached) >>]

\* the headings printed before request 1 .. k
Headings(text, k) == [j \in 1 .. k |-> Line(text, j)]

\* search_data: three searches (the lines printed for the hits are left out)
SearchData(fail) ==
    [raised  |-> IF fail = 0 THEN "none" ELSE "ConnectionError",
     printed |-> << Line("=== SEARCH OPERATIONS ===", 0) >>
                 \o Headings("search", IF fail = 0 THEN 3 ELSE fail),
     remote  |-> Requests("search", "search_data", 3, fail)]

\* perform_aggregations: five searches
PerformAggregations(fail) ==
    [raised  |-> IF fail = 0 THEN "none" ELSE "ConnectionError",
     printed |-> << Line("=== AGGREGATION OPERATIONS ===", 0) >>
                 \o Headings("aggregation", IF fail = 0 THEN 5 ELSE fail),
     remote  |-> Requests("search", "perform_aggregations", 5, fail)]

BANNER == Line("=== ELASTICSEARCH OPERATIONS COMPLETED SUCCESSFULLY ===", 0)

\* variant: the refresh is requested after the queries
MainOrderRefreshLast ==
    << "connect", "create_index", "generate", "insert", "search", "aggregate",
       "refresh", "done" >>

\* the statements of the try block of main, in order
MainOrder ==
    << "connect", "create_index", "generate", "insert", "refresh", "search",
       "aggregate", "done" >>

Position(p) == CHOOSE k \in DOMAIN MainOrder : MainOrder[k] = p

Following(p) == MainOrder[Position(p) + 1]

\* a statement of main that called out: on an exception the except block of
\* main prints it and main ends; otherwise main goes on to the next one
MainStep(out) ==
    /\ remote_log' = remote_log \o out.remote
    /\ IF out.raised = "none"
       THEN /\ pc' = Following(pc)
            /\ console' = console \o out.printed
                          \o (IF Following(pc) = "done" THEN << BANNER >> ELSE << >>)
       ELSE /\ pc' = "failed"
            /\ console' = console \o out.printed
                          \o << Line("Error: " \o out.raised, 0) >>

MainConnect ==
    /\ pc = "connect"
    /\ \E fail \in 0 .. 2 : MainStep(ConnectToElasticsearch(fail))
    /\ UNCHANGED <<clock, seed, rng, num_records, calls, indices, docs,
                   ensure_calls, data, insert_out>>

MainCreateIndex ==
    /\ pc = "create_index"
    /\ \E reach1, reach2 \in BOOLEAN :
         LET out == CreateIndexIfNotExists(indices, INDEX_NAME, reach1, reach2)
         IN  /\ MainStep(out)
             /\ indices' = out.indices
    /\ UNCHANGED <<clock, seed, rng, num_records, calls, docs, ensure_calls,
                   data, insert_out>>

MainGenerate ==
    /\ pc = "generate"
    /\ LET out == GenerateSampleData(NUM_RECORDS, clock, rng)
       IN  /\ data' = out.result
           /\ rng' = out.rng
           /\ MainStep([raised  |-> out.raised,
                        printed |-> << Line("Generating sample data...", 0),
                                       Line("Inserting data into Elasticsearch...", 0) >>,
                        remote  |-> << >>])
    /\ UNCHANGED <<clock, seed, num_records, calls, indices, docs, ensure_calls,
                   insert_out>>

MainInsert ==
    /\ pc = "insert"
    /\ \E reached \in BOOLEAN :
         LET out == InsertData(INDEX_NAME, data, reached)
         IN  /\ insert_out' = out
             /\ docs' = docs \o out.stored
             /\ MainStep(out)
    /\ UNCHANGED <<clock, seed, rng, num_records, calls, indices, ensure_calls,
                   data>>

MainRefresh ==
    /\ pc = "refresh"
    /\ \E reached \in BOOLEAN : MainStep(Refresh(reached))
    /\ UNCHANGED <<clock, seed, rng, num_records, calls, indices, docs,
                   ensure_calls, data, insert_out>>

MainSearch ==
    /\ pc = "search"
    /\ \E fail \in 0 .. 3 : MainStep(SearchData(fail))
    /\ UNCHANGED <<clock, seed, rng, num_records, calls, indices, docs,
                   ensure_calls, data, insert_out>>

MainAggregate ==
    /\ pc = "aggregate"
    /\ \E fail \in 0 .. 5 : MainStep(PerformAggregations(fail))
    /\ UNCHANGED <<clock, seed, rng, num_records, calls, indices, docs,
                   ensure_calls, data, insert_out>>

----------------------------------------------------------------------------
(* Initial states *)

\* an index somebody else created earlier under the same name
OtherBody ==
    [mappings |-> [timestamp |-> "date", message |-> "text"],
     settings |-> [number_of_shards |-> 3, number_of_replicas |-> 0]]

OTHER_NAME == "audit_logs"

IndexNames == {INDEX_NAME, OTHER_NAME}

\* the stores that hold at most one index of each name
Stores ==
    { idx \in SUBSET [name : IndexNames, body : {mapping, OtherBody}] :
        \A e1, e2 \in idx : e1.name = e2.name => e1 = e2 }

GeneratorIdle ==
    /\ clock = ClockStart
    /\ seed = 0
    /\ rng = 0
    /\ num_records = 0
    /\ calls = << >>

PipelineIdle ==
    /\ indices = {}
    /\ docs = << >>
    /\ ensure_calls = << >>
    /\ data = << >>
    /\ insert_out = NotCalled
    /\ pc = "idle"
    /\ console = << >>
    /\ remote_log = << >>

----------------------------------------------------------------------------
(* SpecGen: the generator called by a test harness, which seeds the random *)
(* source, calls, lets time pass, may seed again, and calls again.         *)

InitGen ==
    /\ clock = ClockStart
    /\ seed \in 0 .. RngModulus - 1
    /\ rng = seed
    /\ num_records \in -1 .. MaxCount
    /\ calls = << >>
    /\ PipelineIdle

\* generate_sample_data(num_records)
Generate ==
    /\ Len(calls) < 2
    /\ LET out == GenerateSampleData(num_records, clock, rng)
       IN  /\ calls' = Append(calls, [now    |-> clock,
                                      start  |-> rng,
                                      count  |-> num_records,
                                      result |-> out.result,
                                      raised |-> out.raised])
           /\ rng' = out.rng
    /\ UNCHANGED <<clock, seed, num_records, indices, docs, ensure_calls,
                   data, insert_out, pc, console, remote_log>>

\* random.seed(seed)
Reseed ==
    /\ rng # seed
    /\ rng' = seed
    /\ UNCHANGED <<clock, seed, num_records, calls, indices, docs, ensure_calls,
                   data, insert_out, pc, console, remote_log>>

\* time passes
ClockTick ==
    /\ clock < ClockStart + MaxTicks
    /\ clock' = clock + 1
    /\ UNCHANGED <<seed, rng, num_records, calls, indices, docs, ensure_calls,
                   data, insert_out, pc, console, remote_log>>

NextGen == Generate \/ Reseed \/ ClockTick

SpecGen == InitGen /\ [][NextGen]_vars

----------------------------------------------------------------------------
(* SpecIdx: create_index_if_not_exists called again and again against a    *)
(* store that is reached, from every store state.                          *)

InitIdx ==
    /\ GeneratorIdle
    /\ indices \in Stores
    /\ docs = << >>
    /\ ensure_calls = << >>
    /\ data = << >>
    /\ insert_out = NotCalled
    /\ pc = "idle"
    /\ console = << >>
    /\ remote_log = << >>

EnsureCollection ==
    /\ Len(ensure_calls) < MaxEnsureCalls
    /\ \E name \in IndexNames :
         LET out == CreateIndexIfNotExists(indices, name, TRUE, TRUE)
         IN  /\ ensure_calls' = Append(ensure_calls,
                                       [name   |-> name,
                                        ret    |-> out.ret,
                                        raised |-> out.raised,
                                        before |-> indices,
                                        after  |-> out.indices])
             /\ indices' = out.indices
             /\ console' = console \o out.printed
             /\ remote_log' = remote_log \o out.remote
    /\ UNCHANGED <<clock, seed, rng, num_records, calls, docs, data,
                   insert_out, pc>>

NextIdx == EnsureCollection

SpecIdx == InitIdx /\ [][NextIdx]_vars

----------------------------------------------------------------------------
(* SpecLoad: insert_data called with a batch of well-formed and malformed  *)
(* documents, against the index of the run.                                *)

GoodDoc == GenerateRecord(BaseTime(ClockStart), 0)
OtherGoodDoc == GenerateRecord(BaseTime(ClockStart), 1)
BadIpDoc == [GoodDoc EXCEPT !.ip_address = << 192, 168, 1, 999 >>]

DocPool == {GoodDoc, OtherGoodDoc, BadIpDoc}

Batches == UNION { [1 .. k -> DocPool] : k \in 0 .. MaxBatch }

InitLoad ==
    /\ GeneratorIdle
    /\ indices = {[name |-> INDEX_NAME, body |-> mapping]}
    /\ docs = << >>
    /\ ensure_calls = << >>
    /\ data \in Batches
    /\ insert_out = NotCalled
    /\ pc = "idle"
    /\ console = << >>
    /\ remote_log = << >>

Submit ==
    /\ ~insert_out.called
    /\ \E reached \in BOOLEAN :
         LET out == InsertData(INDEX_NAME, data, reached)
         IN  /\ insert_out' = out
             /\ docs' = docs \o out.stored
             /\ console' = console \o out.printed
             /\ remote_log' = remote_log \o out.remote
    /\ UNCHANGED <<clock, seed, rng, num_records, calls, indices,
                   ensure_calls, data, pc>>

NextLoad == Submit

SpecLoad == InitLoad /\ [][NextLoad]_vars

----------------------------------------------------------------------------
(* SpecMain: one run of main, from every state of the store's index of the *)
(* run, with every remote request reaching the store or not.               *)

InitMain ==
    /\ clock = ClockStart
    /\ seed \in 0 .. MaxMainSeed
    /\ rng = seed
    /\ num_records = NUM_RECORDS
    /\ calls = << >>
    /\ indices \in { idx \in Stores : \A e \in idx : e.name = INDEX_NAME }
    /\ docs = << >>
    /\ ensure_calls = << >>
    /\ data = << >>
    /\ insert_out = NotCalled
    /\ pc = "connect"
    /\ console = << >>
    /\ remote_log = << >>

NextMain ==
    \/ MainConnect
    \/ MainCreateIndex
    \/ MainGenerate
    \/ MainInsert
    \/ MainRefresh
    \/ MainSearch
    \/ MainAggregate

SpecMain == InitMain /\ [][NextMain]_vars

----------------------------------------------------------------------------
(* Properties of generate_sample_data, under SpecGen *)

RecordsOf(c) == Range(c.result)

\* C4: every record's timestamp lies in [now - 7 days, now], now being the
\* clock the call read.
TimestampInWindow ==
    \A c \in Range(calls) : \A rec \in RecordsOf(c) :
        /\ ParseIso(rec.timestamp) >= c.now - 7 * 24 * 60
        /\ ParseIso(rec.timestamp) <= c.now

\* C5: a call with count > 0 returns exactly count records, and in each the
\* action is one of the 6 actions, the status one of the 3 statuses, the
\* location one of the candidate points with lat in [-90, 90] and lon in
\* [-180, 180], session_duration in 60 .. 3600, response_time >= 0 and
\* ip_address four octets each in 0 .. 255.
GenFieldInvariants ==
    \A c \in Range(calls) :
        /\ c.count > 0 => Len(c.result) = c.count
        /\ \A rec \in RecordsOf(c) :
            /\ rec.action \in {"login", "logout", "file_upload", "file_download",
                               "api_call", "database_query"}
            /\ rec.status \in {"success", "failed", "timeout"}
            /\ rec.location \in Range(locations)
            /\ rec.location.lat >= -900000 /\ rec.location.lat <= 900000
            /\ rec.location.lon >= -1800000 /\ rec.location.lon <= 1800000
            /\ rec.session_duration >= 60 /\ rec.session_duration <= 3600
            /\ rec.response_time >= 0
            /\ Len(rec.ip_address) = 4
            /\ \A k \in 1 .. 4 : rec.ip_address[k] \in 0 .. 255

\* a call with count > 1 was made and its first record has the longest
\* session
GenFieldWitness ==
    \E c \in Range(calls) :
        /\ c.count > 1
        /\ Len(c.result) = c.count
        /\ c.result[1].session_duration = 3600

\* the two records of the same call without their timestamps
SameButTimestamp(r1, r2) ==
    [r1 EXCEPT !.timestamp = IsoFormat(0)] = [r2 EXCEPT !.timestamp = IsoFormat(0)]

EntityFieldsFromOneUser ==
    \A c \in Range(calls) : \A rec \in RecordsOf(c) :
        \E u \in Range(users) :
            /\ rec.user_id = u.id
            /\ rec.user_name = u.name
            /\ rec.department = u.dept

\* a record of the last entity of the population was generated
EntityFieldsWitness ==
    \E c \in Range(calls) : \E rec \in RecordsOf(c) :
        rec.user_id = "U005" /\ rec.user_name = "Charlie Wilson" /\ rec.department = "hr"

----------------------------------------------------------------------------
(* Properties of create_index_if_not_exists, under SpecIdx *)

Named(idx, name) == { e \in idx : e.name = name }

\* C6: of two calls in succession on the same name, neither raises, the
\* first returns true exactly when the index was absent, the second returns
\* false, and afterwards the store holds exactly one index of that name,
\* the one it held before if it held one.
EnsureCollectionIdempotent ==
    \A k \in 1 .. Len(ensure_calls) - 1 :
        LET first  == ensure_calls[k]
            second == ensure_calls[k + 1]
        IN  first.name = second.name =>
              /\ first.raised = "none"
              /\ second.raised = "none"
              /\ first.ret = (Named(first.before, first.name) = {})
              /\ second.ret = FALSE
              /\ Cardinality(Named(second.after, first.name)) = 1
              /\ Named(first.before, first.name) # {}
                    => Named(second.after, first.name) = Named(first.before, first.name)
              /\ Named(first.before, first.name) = {}
                    => Named(second.after, first.name) = {[name |-> first.name, body |-> mapping]}

\* two calls in succession on a name that was absent: the first created it
EnsureCollectionWitness ==
    \E k \in 1 .. Len(ensure_calls) - 1 :
        /\ ensure_calls[k].name = ensure_calls[k + 1].name
        /\ ensure_calls[k].ret = TRUE
        /\ ensure_calls[k + 1].ret = FALSE

----------------------------------------------------------------------------
(* Properties of insert_data, under SpecLoad *)

Accepted(batch) == Len(SelectDocs(batch, TRUE))
Rejected(batch) == Len(SelectDocs(batch, FALSE))

\* C1: when the store is reached and rejects some documents of the batch
\* and accepts the others, insert_data reports the number accepted and the
\* number rejected, which add up to the number submitted, and the accepted
\* ones are in the store.
SubmitReportsExactCounts ==
    (insert_out.called /\ insert_out.reached
        /\ Accepted(data) > 0 /\ Rejected(data) > 0)
    => /\ Line("Successfully inserted documents", Accepted(data))
            \in Range(insert_out.printed)
       /\ Line("Failed to insert documents", Rejected(data))
            \in Range(insert_out.printed)
       /\ Accepted(data) + Rejected(data) = Len(data)
       /\ Len(docs) = Accepted(data)

\* C2: when the bulk request does not reach the store, nothing is stored,
\* one failure is reported, and what the caller has in hand differs from
\* what it has after any submission in which documents were rejected.
UnreachableDistinctFromRejection ==
    (insert_out.called /\ ~insert_out.reached)
    => /\ docs = << >>
       /\ Len(insert_out.printed) = 1
       /\ \A b \in Batches :
            Rejected(b) > 0
                => CallerOutcome(InsertData(INDEX_NAME, b, TRUE))
                     # CallerOutcome(insert_out)

----------------------------------------------------------------------------
(* Properties of main, under SpecMain *)

\* C3: a remote request that did not reach the store is the last one the
\* run issues: main has caught the failure, and the banner is not printed.
ConnectionFailureIsFatal ==
    \A k \in DOMAIN remote_log :
        remote_log[k].failed
            => /\ k = Len(remote_log)
               /\ pc = "failed"
               /\ BANNER \notin Range(console)

\* C7: every search is preceded by a refresh that main requested after
\* insert_data had issued the bulk request and returned; no refresh is
\* requested by insert_data.
RefreshByMainBeforeQueries ==
    /\ \A k \in DOMAIN remote_log :
        remote_log[k].op = "search"
            => \E j \in 1 .. k - 1 :
                 /\ remote_log[j] = Remote("refresh", "main", TRUE)
                 /\ \E b \in 1 .. j - 1 : remote_log[b].op = "bulk"
    /\ \A k \in DOMAIN remote_log :
        remote_log[k].op = "refresh"
            => /\ remote_log[k].by = "main"
               /\ insert_out.called

\* the run has completed and its queries were issued
RefreshWitness ==
    /\ pc = "done"
    /\ \E k \in DOMAIN remote_log : remote_log[k].op = "search"

====
